---- MODULE Spec2Model ----
(***************************************************************************)
(* LanguageManager of frog/language_manager.py: the catalog of language    *)
(* codes, the cache of installed codes, the download worker with its       *)
(* best-repository / fallback-repository attempts, and remove_language.    *)
(***************************************************************************)
EXTENDS Integers, Sequences, FiniteSets, TLC

\* ------------------------------------------------------------------ bounds
\* Number of download() calls in one run.
MaxDownloads == 1
\* Largest Content-Length the transport reports (in bytes).
MaxTotal == 1
\* Size of the blocks the transport reads (block_size of the report hook).
BlockSize == 2
\* Blocks read at most when the transport reports no Content-Length.
MaxBlocks == 1

\* ------------------------------------------------------------ the catalog
\* The value Python's None; download_begin returns it when both attempts failed.
None == "<None>"

\* Display titles as sequences of code points (Python compares str that way).
\* self._languages, restricted to four of its entries, in insertion order.
LanguageOrder == <<"bod", "deu", "eng", "frk">>

Languages ==
    [c \in {"bod", "deu", "eng", "frk"} |->
        CASE c = "bod" -> <<84, 105, 98, 101, 116, 97, 110>>            \* Tibetan
          [] c = "deu" -> <<71, 101, 114, 109, 97, 110>>                \* German
          [] c = "eng" -> <<69, 110, 103, 108, 105, 115, 104>>          \* English
          [] c = "frk" -> <<71, 101, 114, 109, 97, 110, 32, 45, 32,
                            70, 114, 97, 107, 116, 117, 114>>]          \* German - Fraktur

LanguageCodes == DOMAIN Languages

\* get_language(code): the title of a catalog code.
get_language(code) == Languages[code]

Min(a, b) == IF a < b THEN a ELSE b

\* s < t for Python str: lexicographic on code points, a proper prefix is smaller.
StrLess(s, t) ==
    \E i \in 1..(Min(Len(s), Len(t)) + 1) :
        /\ \A j \in 1..(i - 1) : s[j] = t[j]
        /\ \/ i = Len(s) + 1 /\ i <= Len(t)
           \/ i <= Len(s) /\ i <= Len(t) /\ s[i] < t[i]

\* One step of the stable sort: x goes after every element whose key is not
\* greater than its own.
RECURSIVE InsertByTitle(_, _)
InsertByTitle(x, s) ==
    IF s = <<>> THEN <<x>>
    ELSE IF StrLess(get_language(x), get_language(s[Len(s)]))
         THEN Append(InsertByTitle(x, SubSeq(s, 1, Len(s) - 1)), s[Len(s)])
         ELSE Append(s, x)

\* sorted(codes, key=lambda x: self.get_language(x)): stable, ascending.
RECURSIVE SortedByTitle(_)
SortedByTitle(codes) ==
    IF codes = <<>> THEN <<>>
    ELSE InsertByTitle(codes[Len(codes)], SortedByTitle(SubSeq(codes, 1, Len(codes) - 1)))

\* get_available_codes(): the catalog keys sorted by title.
get_available_codes == SortedByTitle(LanguageOrder)

\* --------------------------------------------------------- the directory
\* A file name is the sequence of its dot-separated components.
\* f'{code}.traineddata'
tessfile(code) == <<code, "traineddata">>

\* os.path.splitext(lang_file)[0]: the name without its last extension.
splitext(lang_file) ==
    IF Len(lang_file) > 1 THEN SubSeq(lang_file, 1, Len(lang_file) - 1) ELSE lang_file

\* `code not in self._languages` for a stem of the directory listing.
InLanguages(stem) == Len(stem) = 1 /\ stem[1] \in LanguageCodes

\* The orders os.listdir may return the entries in (any order).
ListDir(dir) ==
    {order \in [1..Cardinality(dir) -> dir] :
        \A i, j \in 1..Cardinality(dir) : i # j => order[i] # order[j]}

\* The loop over self._downloaded_codes that keeps the catalog codes.
RECURSIVE recognized_codes(_)
recognized_codes(stems) ==
    IF stems = <<>> THEN <<>>
    ELSE LET rest == recognized_codes(SubSeq(stems, 1, Len(stems) - 1))
             stem == stems[Len(stems)]
         IN  IF InLanguages(stem) THEN Append(rest, stem[1]) ELSE rest

\* What get_downloaded_codes returns for a cache content.
DownloadedCodesOf(stems) == SortedByTitle(recognized_codes(stems))

ToSet(s) == {s[i] : i \in 1..Len(s)}

\* --------------------------------------------------------------- progress
Abs(n) == IF n < 0 THEN -n ELSE n

\* int(n / d) for d # 0: Python's int() truncates toward zero.
IntTrunc(n, d) ==
    IF (n >= 0) = (d > 0) THEN Abs(n) \div Abs(d) ELSE -(Abs(n) \div Abs(d))

\* update_progress: int(block_num * block_size * 100 / total_size).
Progress(block_num, block_size, total_size) ==
    IntTrunc(block_num * block_size * 100, total_size)

\* download() emits 0.1 for the int parameter of 'downloading'; the signal's
\* int conversion truncates it.
InitialProgress == IntTrunc(1, 10)

\* ------------------------------------------------------------------ state
VARIABLES
    files,              \* names of the entries of tessdata_dir
    need_update_cache,  \* self._need_update_cache
    downloaded_codes,   \* self._downloaded_codes: stems of the last listing
    loading_languages,  \* keys of self.loading_languages
    calls,              \* per download() call: worker position, result, signals
    last                \* how the latest main-thread handler ended

vars == <<files, need_update_cache, downloaded_codes, loading_languages,
          calls, last>>

\* The download() calls of a run, and those of the run at hand.
Downloads == 1..MaxDownloads

Calls == DOMAIN calls

\* Codes the callers pass to download() and remove_language().
CodeInputs == {"deu", "eng"}

\* Content-Length values of the transport: -1 is "no Content-Length header".
TotalSizes == {-1} \cup 0..MaxTotal

NewCall ==
    [pc |-> "new", code |-> None, result |-> None, block_num |-> 0,
     total_size |-> -1, attempts |-> <<>>, emitted |-> <<>>]

\* How a main-thread handler ended: the exception it raised ("none" when it
\* returned), the code remove_language was called with (None for the other
\* handlers), and the signals it emitted that belong to no download() call.
Returned(exception, code, signals) == [exc |-> exception, arg |-> code, emitted |-> signals]

\* The data directory as init_tessdata leaves it: eng.traineddata.
InitialFiles == {tessfile("eng")}

\* __init__
Init ==
    /\ files = InitialFiles
    /\ need_update_cache = TRUE
    /\ downloaded_codes = <<>>
    /\ loading_languages = {}
    /\ calls = [d \in Downloads |-> NewCall]
    /\ last = Returned("none", None, <<>>)

\* ------------------------------------------------------ main-thread calls
\* download() as it would be with the first 'downloading' emitted before 'added'.
DownloadEmitsProgressFirst(d, code) ==
    /\ calls[d].pc = "new"
    /\ \A e \in Calls : e < d => calls[e].pc # "new"
    /\ calls' = [calls EXCEPT ![d] =
                    [@ EXCEPT !.pc = "dispatched", !.code = code,
                              !.emitted = <<<<"downloading", code, InitialProgress>>,
                                            <<"added", code>>>>]]
    /\ loading_languages' = loading_languages \cup {code}
    /\ last' = Returned("none", None, <<>>)
    /\ UNCHANGED <<files, need_update_cache, downloaded_codes>>

\* download(code): 'added', the dictionary entry, 'downloading' 0.1, dispatch.
Download(d, code) ==
    /\ calls[d].pc = "new"
    /\ \A e \in Calls : e < d => calls[e].pc # "new"
    /\ calls' = [calls EXCEPT ![d] =
                    [@ EXCEPT !.pc = "dispatched", !.code = code,
                              !.emitted = <<<<"added", code>>,
                                            <<"downloading", code, InitialProgress>>>>]]
    /\ loading_languages' = loading_languages \cup {code}
    /\ last' = Returned("none", None, <<>>)
    /\ UNCHANGED <<files, need_update_cache, downloaded_codes>>

\* The cache after get_downloaded_codes(force) when os.listdir returns `order`.
CacheAfter(force, order) ==
    IF need_update_cache \/ force
    THEN [i \in 1..Len(order) |-> splitext(order[i])]
    ELSE downloaded_codes

\* get_downloaded_codes(force)
GetDownloadedCodes(force) ==
    \E order \in ListDir(files) :
        /\ downloaded_codes' = CacheAfter(force, order)
        /\ need_update_cache' = IF need_update_cache \/ force THEN FALSE
                                ELSE need_update_cache
        /\ last' = Returned("none", None, <<>>)
        /\ UNCHANGED <<files, loading_languages, calls>>

\* remove_language() as it would be without `self._need_update_cache = True`.
RemoveLanguageKeepsCache(code) ==
    IF tessfile(code) \in files
    THEN /\ files' = files \ {tessfile(code)}
         /\ last' = Returned("none", code, <<<<"removed", code>>>>)
         /\ UNCHANGED <<need_update_cache, downloaded_codes, loading_languages, calls>>
    ELSE /\ last' = Returned("FileNotFoundError", code, <<>>)
         /\ UNCHANGED <<files, need_update_cache, downloaded_codes,
                        loading_languages, calls>>

\* remove_language(code): os.remove raises when the file does not exist.
RemoveLanguage(code) ==
    IF tessfile(code) \in files
    THEN /\ files' = files \ {tessfile(code)}
         /\ need_update_cache' = TRUE
         /\ last' = Returned("none", code, <<<<"removed", code>>>>)
         /\ UNCHANGED <<downloaded_codes, loading_languages, calls>>
    ELSE /\ last' = Returned("FileNotFoundError", code, <<>>)
         /\ UNCHANGED <<files, need_update_cache, downloaded_codes,
                        loading_languages, calls>>

\* `if code:` is false for None and for the empty string.
Truthy(code) == code \notin {None, ""}

\* download_done() as it would be without `self._need_update_cache = True`.
DownloadDoneKeepsCache(d) ==
    /\ calls[d].pc = "returned"
    /\ LET code == calls[d].result IN
       IF Truthy(code) /\ code \notin loading_languages
       THEN /\ calls' = [calls EXCEPT ![d] = [@ EXCEPT !.pc = "raised", !.attempts = <<>>]]
            /\ last' = Returned("KeyError", None, <<>>)
            /\ UNCHANGED loading_languages
       ELSE /\ loading_languages' = IF Truthy(code) THEN loading_languages \ {code}
                                    ELSE loading_languages
            /\ calls' = [calls EXCEPT ![d] =
                            [@ EXCEPT !.pc = "done", !.attempts = <<>>,
                                      !.emitted = Append(@, <<"downloaded", code>>)]]
            /\ last' = Returned("none", None, <<>>)
    /\ UNCHANGED <<files, need_update_cache, downloaded_codes>>

\* download_done(code), called with the value download_begin returned (the
\* worker hands it over once download_begin has returned).
DownloadDone(d) ==
    /\ calls[d].pc = "returned"
    /\ need_update_cache' = TRUE
    /\ LET code == calls[d].result IN
       IF Truthy(code) /\ code \notin loading_languages
       THEN \* dict.pop(code) raises KeyError: nothing is emitted
            /\ calls' = [calls EXCEPT ![d] = [@ EXCEPT !.pc = "raised", !.attempts = <<>>]]
            /\ last' = Returned("KeyError", None, <<>>)
            /\ UNCHANGED loading_languages
       ELSE /\ loading_languages' = IF Truthy(code) THEN loading_languages \ {code}
                                    ELSE loading_languages
            /\ calls' = [calls EXCEPT ![d] =
                            [@ EXCEPT !.pc = "done", !.attempts = <<>>,
                                      !.emitted = Append(@, <<"downloaded", code>>)]]
            /\ last' = Returned("none", None, <<>>)
    /\ UNCHANGED <<files, downloaded_codes>>

\* ------------------------------------------------------ the worker thread
\* The attempts of a call with the running (latest) one ended as `outcome`.
Ended(c, outcome) == [c.attempts EXCEPT ![Len(c.attempts)] = <<@[1], outcome>>]

\* urlretrieve(tessdata_best_url + tessfile, ...) cannot open the URL.
BestOpenFails(d) ==
    /\ calls[d].pc = "dispatched"
    /\ calls' = [calls EXCEPT ![d] =
                    [@ EXCEPT !.pc = "fallback", !.attempts = Append(@, <<"best", "raised">>)]]
    /\ UNCHANGED <<files, need_update_cache, downloaded_codes, loading_languages,
                   last>>

\* urlretrieve opens the URL, creates the file and calls update_progress(0, bs, size);
\* with size 0 the division raises and the attempt fails.
BestOpen(d, size) ==
    /\ calls[d].pc = "dispatched"
    /\ files' = files \cup {tessfile(calls[d].code)}
    /\ calls' = [calls EXCEPT ![d] =
         IF size = 0
         THEN [@ EXCEPT !.pc = "fallback", !.attempts = Append(@, <<"best", "raised">>)]
         ELSE [@ EXCEPT !.pc = "best", !.total_size = size, !.block_num = 0,
                        !.attempts = Append(@, <<"best", "running">>),
                        !.emitted = Append(@, <<"downloading", calls[d].code,
                                                Progress(0, BlockSize, size)>>)]]
    /\ UNCHANGED <<need_update_cache, downloaded_codes, loading_languages,
                   last>>

\* Whether the transport has more blocks to deliver.
MoreBlocks(c) ==
    IF c.total_size < 0 THEN c.block_num < MaxBlocks
    ELSE c.block_num * BlockSize < c.total_size

\* One block is read and written, then update_progress(block_num, bs, size).
BestBlock(d) ==
    /\ calls[d].pc = "best"
    /\ MoreBlocks(calls[d])
    /\ calls' = [calls EXCEPT ![d] =
         [@ EXCEPT !.block_num = @ + 1,
                   !.emitted = Append(@, <<"downloading", calls[d].code,
                       Progress(calls[d].block_num + 1, BlockSize, calls[d].total_size)>>)]]
    /\ UNCHANGED <<files, need_update_cache, downloaded_codes, loading_languages,
                   last>>

\* The transfer breaks (read error, or ContentTooShortError at its end).
BestFails(d) ==
    /\ calls[d].pc = "best"
    /\ calls[d].total_size < 0 \/ MoreBlocks(calls[d])
    /\ calls' = [calls EXCEPT ![d] =
                    [@ EXCEPT !.pc = "fallback", !.block_num = 0, !.total_size = -1,
                              !.attempts = Ended(calls[d], "raised")]]
    /\ UNCHANGED <<files, need_update_cache, downloaded_codes, loading_languages,
                   last>>

\* The transfer ends with every byte read: download_begin returns code.
BestDone(d) ==
    /\ calls[d].pc = "best"
    /\ ~MoreBlocks(calls[d]) \/ calls[d].total_size < 0
    /\ calls' = [calls EXCEPT ![d] =
                    [@ EXCEPT !.pc = "returned", !.result = calls[d].code,
                              !.block_num = 0, !.total_size = -1,
                              !.attempts = Ended(calls[d], "ok")]]
    /\ UNCHANGED <<files, need_update_cache, downloaded_codes, loading_languages,
                   last>>

\* urlretrieve(tessdata_url + tessfile, tessfile_path) cannot open the URL:
\* download_begin returns None.
FallbackOpenFails(d) ==
    /\ calls[d].pc = "fallback"
    /\ calls' = [calls EXCEPT ![d] =
                    [@ EXCEPT !.pc = "returned", !.result = None,
                              !.attempts = Append(@, <<"fallback", "raised">>)]]
    /\ UNCHANGED <<files, need_update_cache, downloaded_codes, loading_languages,
                   last>>

\* The fallback URL opens and the file is created (no report hook here).
FallbackOpen(d) ==
    /\ calls[d].pc = "fallback"
    /\ files' = files \cup {tessfile(calls[d].code)}
    /\ calls' = [calls EXCEPT ![d] =
                    [@ EXCEPT !.pc = "fallback_transfer",
                              !.attempts = Append(@, <<"fallback", "running">>)]]
    /\ UNCHANGED <<need_update_cache, downloaded_codes, loading_languages,
                   last>>

\* The end of the fallback transfer as it would be with `return code` after the
\* inner try statement instead of inside it.
FallbackEndReturnsCode(d, ok) ==
    /\ calls[d].pc = "fallback_transfer"
    /\ calls' = [calls EXCEPT ![d] =
                    [@ EXCEPT !.pc = "returned", !.result = calls[d].code,
                              !.attempts = Ended(calls[d], IF ok THEN "ok" ELSE "raised")]]
    /\ UNCHANGED <<files, need_update_cache, downloaded_codes, loading_languages,
                   last>>

\* The fallback transfer ends: code when complete, None when it broke.
FallbackEnd(d, ok) ==
    /\ calls[d].pc = "fallback_transfer"
    /\ calls' = [calls EXCEPT ![d] =
                    [@ EXCEPT !.pc = "returned",
                              !.result = IF ok THEN calls[d].code ELSE None,
                              !.attempts = Ended(calls[d], IF ok THEN "ok" ELSE "raised")]]
    /\ UNCHANGED <<files, need_update_cache, downloaded_codes, loading_languages,
                   last>>

Next ==
    \/ \E d \in Calls, code \in CodeInputs : Download(d, code)
    \/ \E force \in BOOLEAN : GetDownloadedCodes(force)
    \/ \E code \in CodeInputs : RemoveLanguage(code)
    \/ \E d \in Calls : DownloadDone(d)
    \/ \E d \in Calls : BestOpenFails(d)
    \/ \E d \in Calls, size \in TotalSizes : BestOpen(d, size)
    \/ \E d \in Calls : BestBlock(d)
    \/ \E d \in Calls : BestFails(d)
    \/ \E d \in Calls : BestDone(d)
    \/ \E d \in Calls : FallbackOpenFails(d)
    \/ \E d \in Calls : FallbackOpen(d)
    \/ \E d \in Calls, ok \in BOOLEAN : FallbackEnd(d, ok)

Spec == Init /\ [][Next]_vars

\* The same program with an entry in the data directory that is no language pack.
InitForeign ==
    /\ files = InitialFiles \cup {<<"pdf", "ttf">>}
    /\ need_update_cache = TRUE
    /\ downloaded_codes = <<>>
    /\ loading_languages = {}
    /\ calls = [d \in Downloads |-> NewCall]
    /\ last = Returned("none", None, <<>>)

SpecForeign == InitForeign /\ [][Next]_vars

\* The same program with one more download() call, so that two overlap.
InitOverlap ==
    /\ files = InitialFiles
    /\ need_update_cache = TRUE
    /\ downloaded_codes = <<>>
    /\ loading_languages = {}
    /\ calls = [d \in 1..(MaxDownloads + 1) |-> NewCall]
    /\ last = Returned("none", None, <<>>)

SpecOverlap == InitOverlap /\ [][Next]_vars

\* ------------------------------------------------- the listing functions
\* Directory contents for the listing functions: packs of the catalog, an
\* entry with the stem of a pack and another extension, an entry without one.
ListingNames ==
    {tessfile("bod"), tessfile("deu"), tessfile("eng"), tessfile("frk"),
     <<"eng", "txt">>, <<"configs">>}

InitListing ==
    /\ files \in SUBSET ListingNames
    /\ need_update_cache = TRUE
    /\ downloaded_codes = <<>>
    /\ loading_languages = {}
    /\ calls = [d \in Downloads |-> NewCall]
    /\ last = Returned("none", None, <<>>)

NextListing == \E force \in BOOLEAN : GetDownloadedCodes(force)

SpecListing == InitListing /\ [][NextListing]_vars

\* ------------------------------------------------------------ the claims
\* A download() call whose download_done has not run yet.
InFlight(d) == calls[d].pc \notin {"new", "done", "raised"}

Quiescent == \A d \in Calls : ~InFlight(d)

\* The catalog codes whose pack file is in the data directory.
Installed == {c \in LanguageCodes : tessfile(c) \in files}

\* Whether every get_downloaded_codes() made now, without force, returns the
\* set S / a list holding c.
ReturnsSet(S) ==
    \A order \in ListDir(files) : ToSet(DownloadedCodesOf(CacheAfter(FALSE, order))) = S

ReturnsCode(c) ==
    \E order \in ListDir(files) : c \in ToSet(DownloadedCodesOf(CacheAfter(FALSE, order)))

\* C1: download_begin tries the best repository first, the fallback repository
\* only after the best attempt raised and only once, never more than two
\* attempts; it returns code iff one attempt succeeded and None iff both failed.
C1_TwoTierAttempt ==
    \A d \in Calls :
        LET a == calls[d].attempts
            c == calls[d] IN
        /\ Len(a) <= 2
        /\ Len(a) >= 1 => a[1][1] = "best"
        /\ Len(a) = 2 => a[1] = <<"best", "raised">> /\ a[2][1] = "fallback"
        /\ c.pc \in {"best", "fallback", "fallback_transfer", "returned"} => Len(a) >= 1
        /\ c.pc = "returned" =>
              /\ c.result \in {c.code, None}
              /\ c.result = c.code <=> \E i \in 1..Len(a) : a[i][2] = "ok"
              /\ c.result = None <=>
                    Len(a) = 2 /\ \A i \in 1..2 : a[i][2] = "raised"

\* A download whose best attempt raised and whose fallback attempt succeeded.
C1_Witness ==
    \E d \in Calls :
        /\ calls[d].pc = "returned"
        /\ calls[d].attempts = <<<<"best", "raised">>, <<"fallback", "ok">>>>
        /\ calls[d].result = calls[d].code

\* C2: when no download is in flight, get_downloaded_codes() without force
\* returns, as a set, exactly the catalog codes with a file in the directory.
C2_CacheFreshAtQuiescence == Quiescent => ReturnsSet(Installed)

\* Quiescent after a download and with a cache that no longer matches the
\* directory, which also holds an entry that is no pack: only the flag makes
\* the next query right.
C2_Witness ==
    /\ Quiescent
    /\ <<"pdf">> \in ToSet(downloaded_codes)
    /\ \E d \in Calls : calls[d].pc = "done"
    /\ need_update_cache
    /\ ToSet(recognized_codes(downloaded_codes)) # Installed
    /\ downloaded_codes # <<>>

\* C3: remove_language(code) on an installed pack deletes code.traineddata,
\* emits exactly one 'removed' signal carrying code, and a get_downloaded_codes()
\* made next (without force) does not hold code; when the file does not exist it
\* raises, emits nothing and leaves _need_update_cache, _downloaded_codes and
\* loading_languages as they were.
C3_RemoveLanguage ==
    [][\A c \in CodeInputs :
          (last'.arg = c /\ calls' = calls) =>
              IF tessfile(c) \in files
              THEN /\ tessfile(c) \notin files'
                   /\ last' = Returned("none", c, <<<<"removed", c>>>>)
                   /\ ~ReturnsCode(c)'
              ELSE /\ last'.exc = "FileNotFoundError"
                   /\ last'.emitted = <<>>
                   /\ UNCHANGED <<files, need_update_cache, downloaded_codes,
                                  loading_languages>>]_vars

\* Right after a successful remove_language(code) with code still in the cache.
C3_Witness ==
    \E c \in CodeInputs :
        /\ last = Returned("none", c, <<<<"removed", c>>>>)
        /\ <<c>> \in ToSet(downloaded_codes)
        /\ tessfile(c) \notin files

\* The names of the signals a download() call emitted, in order.
SignalAt(d, i) == calls[d].emitted[i][1]

\* C4: for one download(code), 'added' is emitted exactly once and before any
\* 'downloading'; a 'downloading' is emitted before the worker is dispatched;
\* every 'downloading' precedes the 'downloaded' of download_done and none
\* follows it.
C4_SignalOrder ==
    \A d \in Calls :
        LET e == calls[d].emitted IN
        calls[d].pc # "new" =>
            /\ Len(e) >= 2
            /\ e[1] = <<"added", calls[d].code>>
            /\ SignalAt(d, 2) = "downloading"
            /\ \A i \in 2..Len(e) : SignalAt(d, i) # "added"
            /\ \A i \in 1..Len(e) :
                  SignalAt(d, i) = "downloading" => e[i][2] = calls[d].code
            /\ \A i, j \in 1..Len(e) :
                  (i < j /\ SignalAt(d, i) = "downloaded") => SignalAt(d, j) # "downloading"
            /\ \A i \in 1..Len(e) :
                  SignalAt(d, i) = "downloaded" => i = Len(e) /\ calls[d].pc = "done"

\* A finished download whose progress callback emitted before 'downloaded'.
C4_Witness ==
    \E d \in Calls :
        /\ calls[d].pc = "done"
        /\ Len(calls[d].emitted) >= 5
        /\ SignalAt(d, Len(calls[d].emitted)) = "downloaded"
        /\ SignalAt(d, Len(calls[d].emitted) - 1) = "downloading"

IsSortedByTitle(s) ==
    \A i \in 1..(Len(s) - 1) : ~StrLess(get_language(s[i + 1]), get_language(s[i]))

NoCodeTwice(s) == \A i, j \in 1..Len(s) : i # j => s[i] # s[j]

RECURSIVE IsSubsequence(_, _)
IsSubsequence(s, t) ==
    IF s = <<>> THEN TRUE
    ELSE IF t = <<>> THEN FALSE
    ELSE IF s[1] = t[1] THEN IsSubsequence(Tail(s), Tail(t))
    ELSE IsSubsequence(s, Tail(t))

\* C5: get_available_codes() returns every catalog code exactly once in
\* ascending title order; get_downloaded_codes() returns only catalog codes,
\* no code twice, in ascending title order: a subsequence of
\* get_available_codes(), for every directory content.
C5_ListingsSorted ==
    /\ ToSet(get_available_codes) = LanguageCodes
    /\ NoCodeTwice(get_available_codes)
    /\ IsSortedByTitle(get_available_codes)
    /\ LET r == DownloadedCodesOf(downloaded_codes) IN
       /\ ToSet(r) \subseteq LanguageCodes
       /\ NoCodeTwice(r)
       /\ IsSortedByTitle(r)
       /\ IsSubsequence(r, get_available_codes)

\* C6: every download() is followed by exactly one 'downloaded' emission of
\* download_done, which returns without raising, also when two downloads of
\* the same code overlap.
C6_EachDownloadCompletes ==
    \A d \in Calls :
        /\ calls[d].pc # "raised"
        /\ calls[d].pc = "done" =>
              Cardinality({i \in 1..Len(calls[d].emitted) :
                              SignalAt(d, i) = "downloaded"}) = 1

\* C7: whenever download_done emits 'downloaded'(c) with a non-empty c, the file
\* c.traineddata exists and a get_downloaded_codes() made then (without force)
\* holds c, for every interleaving with remove_language.
C7_DownloadedMeansInstalled ==
    [][\A d \in Calls :
          (calls[d].pc = "returned" /\ calls'[d].pc = "done" /\ Truthy(calls[d].result)) =>
              /\ tessfile(calls[d].result) \in files'
              /\ ReturnsCode(calls[d].result)']_vars

\* C8: once download_done has run for a download, its code is no key of
\* loading_languages (unless another download of the code is in flight),
\* whether the download succeeded or both attempts failed.
C8_LoadingIsInFlight ==
    \A d \in Calls :
        (/\ calls[d].pc = "done"
         /\ \A e \in Calls : InFlight(e) => calls[e].code # calls[d].code)
        => calls[d].code \notin loading_languages

\* C9: when download_begin returns None, the data directory is as it was before
\* download(code): a pack that was not installed has no file. Stated for the
\* only download started and a pack that was not in the directory at the start:
\* nothing but this download can have created its file.
C9_FailedDownloadLeavesDirectory ==
    \A d \in Calls :
        (/\ calls[d].pc = "returned"
         /\ calls[d].result = None
         /\ \A e \in Calls \ {d} : calls[e].pc = "new"
         /\ tessfile(calls[d].code) \notin InitialFiles)
        => tessfile(calls[d].code) \notin files

\* C10: every progress value of a 'downloading' signal is an integer in 0..100
\* and the values of one download never decrease.
C10_ProgressInRange ==
    \A d \in Calls :
        LET e == calls[d].emitted IN
        /\ \A i \in 1..Len(e) : SignalAt(d, i) = "downloading" => e[i][3] \in 0..100
        /\ \A i, j \in 1..Len(e) :
              (i < j /\ SignalAt(d, i) = "downloading" /\ SignalAt(d, j) = "downloading")
              => e[i][3] <= e[j][3]

====
